---- MODULE Spec2Model ----
(***************************************************************************)
(* Model of the Layout component of makeitmini/scaffold                    *)
(* (src/layout/layout.go, src/layout/layout_utils.go): a header band, a    *)
(* scrollable viewport and a footer band driven by resize and key events.  *)
(*                                                                         *)
(* A string is a sequence of characters over {"a", "\n"}; the viewport     *)
(* keeps its content the way bubbles/viewport does, as the list of lines   *)
(* obtained by splitting the string at "\n".                               *)
(***************************************************************************)
EXTENDS Integers, Sequences, FiniteSets, TLC

VARIABLES l, resized

vars == <<l, resized>>

----------------------------------------------------------------------------
(* Bounds of the model                                                     *)

MaxLen == 3

MaxWinH == 5

MaxWinW == 1

MaxHeaderH == 2

MaxFooterH == 1

MaxYPos == 1

\* longest content string of the machine with the render setters
MaxRenderLen == 1

----------------------------------------------------------------------------
(* Strings                                                                 *)

NL == "\n"

Chars == {"a", NL}

RECURSIVE StringsOfLen(_)
StringsOfLen(n) ==
    IF n = 0 THEN {<<>>}
    ELSE {<<c>> \o s : c \in Chars, s \in StringsOfLen(n - 1)}

Strings == UNION {StringsOfLen(n) : n \in 0..MaxLen}

\* strings.Count(s, "\n")
RECURSIVE Count(_)
Count(s) ==
    IF s = <<>> THEN 0
    ELSE (IF Head(s) = NL THEN 1 ELSE 0) + Count(Tail(s))

\* strings.Split(s, "\n"): always at least one (possibly empty) line
RECURSIVE Split(_)
Split(s) ==
    IF s = <<>> THEN << <<>> >>
    ELSE LET rest == Split(Tail(s))
         IN  IF Head(s) = NL THEN << <<>> >> \o rest
             ELSE << <<Head(s)>> \o Head(rest) >> \o Tail(rest)

\* strings.Join(lines, "\n"), the inverse of Split
RECURSIVE Join(_)
Join(lines) ==
    IF Len(lines) = 0 THEN <<>>
    ELSE IF Len(lines) = 1 THEN Head(lines)
    ELSE Head(lines) \o <<NL>> \o Join(Tail(lines))

\* n times strings.Builder.WriteString("\n")
RECURSIVE Newlines(_)
Newlines(n) == IF n <= 0 THEN <<>> ELSE <<NL>> \o Newlines(n - 1)

\* Go integer division: truncates toward zero
Quot(a, b) == IF a >= 0 THEN a \div b ELSE -((-a) \div b)

Max(a, b) == IF a >= b THEN a ELSE b

Min(a, b) == IF a <= b THEN a ELSE b

----------------------------------------------------------------------------
(* The Viewport collaborator (github.com/charmbracelet/bubbles/viewport)   *)

\* the zero value of viewport.Model, held by a Layout before the first resize
viewport_Zero ==
    [Width |-> 0, Height |-> 0, YOffset |-> 0, YPosition |-> 0, lines |-> <<>>]

viewport_New(width, height) ==
    [Width |-> width, Height |-> height, YOffset |-> 0, YPosition |-> 0,
     lines |-> <<>>]

maxYOffset(m) == Max(0, Len(m.lines) - m.Height)

AtTop(m) == m.YOffset <= 0

AtBottom(m) == m.YOffset >= maxYOffset(m)

clamp(v, low, high) == Min(high, Max(low, v))

SetYOffset(m, n) == [m EXCEPT !.YOffset = clamp(n, 0, maxYOffset(m))]

GotoTop(m) == IF AtTop(m) THEN m ELSE SetYOffset(m, 0)

GotoBottom(m) == SetYOffset(m, maxYOffset(m))

viewport_SetContent(m, s) ==
    LET m2 == [m EXCEPT !.lines = Split(s)]
    IN  IF m2.YOffset > Len(m2.lines) - 1 THEN GotoBottom(m2) ELSE m2

viewport_LineDown(m, n) ==
    IF AtBottom(m) \/ n = 0 \/ Len(m.lines) = 0 THEN m
    ELSE SetYOffset(m, m.YOffset + n)

viewport_LineUp(m, n) ==
    IF AtTop(m) \/ n = 0 \/ Len(m.lines) = 0 THEN m
    ELSE SetYOffset(m, m.YOffset - n)

ViewDown(m) == IF AtBottom(m) THEN m ELSE viewport_LineDown(m, m.Height)

ViewUp(m) == IF AtTop(m) THEN m ELSE viewport_LineUp(m, m.Height)

HalfViewDown(m) ==
    IF AtBottom(m) THEN m ELSE viewport_LineDown(m, Quot(m.Height, 2))

HalfViewUp(m) ==
    IF AtTop(m) THEN m ELSE viewport_LineUp(m, Quot(m.Height, 2))

\* the keys of the default key map of the viewport, and one unbound key
viewport_Update(m, key) ==
    CASE key \in {"f", "pgdown"} -> ViewDown(m)
      [] key \in {"b", "pgup"}   -> ViewUp(m)
      [] key \in {"d"}           -> HalfViewDown(m)
      [] key \in {"u"}           -> HalfViewUp(m)
      [] key \in {"j", "down"}   -> viewport_LineDown(m, 1)
      [] key \in {"k", "up"}     -> viewport_LineUp(m, 1)
      [] OTHER                   -> m

\* the lines of the content that fall inside the viewport
visibleLines(m) ==
    IF Len(m.lines) > 0
    THEN LET top    == Max(0, m.YOffset)
             bottom == clamp(m.YOffset + m.Height, top, Len(m.lines))
         IN  SubSeq(m.lines, top + 1, bottom)
    ELSE <<>>

\* the rendered body: the visible lines in a box of the viewport's size
viewport_View(m) ==
    [lines |-> visibleLines(m), width |-> m.Width, height |-> m.Height]

----------------------------------------------------------------------------
(* Layout                                                                  *)

AlignTop == 0

AlignCenter == 1

AlignBottom == 2

VerticalAlignment == {AlignTop, AlignCenter, AlignBottom}

DefaultStyleWidth == 100

\* layout.New()
New ==
    [header          |-> "Header",
     footer          |-> "Footer",
     headerHeight    |-> 1,
     footerHeight    |-> 1,
     viewport        |-> viewport_Zero,
     windowWidth     |-> 0,
     windowHeight    |-> 0,
     headerStyle     |-> [width |-> DefaultStyleWidth],
     footerStyle     |-> [width |-> DefaultStyleWidth],
     pendingContent  |-> <<>>,
     verticalAlign   |-> AlignTop,
     viewportContent |-> <<>>]

\* paddedContent with the whole padding put on top in Center mode
paddedContent_CenterFull(content, align, height) ==
    LET lines == Count(content) + 1
    IN  IF lines < height
        THEN LET paddingSize == height - lines
             IN  CASE align = AlignTop    -> content
                   [] align = AlignCenter -> Newlines(paddingSize) \o content
                   [] align = AlignBottom -> Newlines(paddingSize) \o content
        ELSE content

\* the string applyAlignment hands to viewport.SetContent
paddedContent(content, align, height) ==
    LET lines == Count(content) + 1
    IN  IF lines < height
        THEN LET paddingSize == height - lines
             IN  CASE align = AlignTop    -> content
                   [] align = AlignCenter ->
                        Newlines(Quot(paddingSize, 2)) \o content
                   [] align = AlignBottom -> Newlines(paddingSize) \o content
        ELSE content

\* applyAlignment padding the buffer the viewport already holds
applyAlignment_Compounding(ly) ==
    IF ly.viewport.Width = 0 THEN ly
    ELSE [ly EXCEPT !.viewport =
            viewport_SetContent(@,
                paddedContent(IF ly.viewport.lines = <<>>
                              THEN ly.viewportContent
                              ELSE Join(ly.viewport.lines),
                              ly.verticalAlign, ly.viewport.Height))]

applyAlignment(ly) ==
    IF ly.viewport.Width = 0 THEN ly
    ELSE [ly EXCEPT !.viewport =
            viewport_SetContent(@, paddedContent(ly.viewportContent,
                                     ly.verticalAlign, ly.viewport.Height))]

SetHeader(ly, header) == [ly EXCEPT !.header = header]

SetHeaderStyle(ly, style) == [ly EXCEPT !.headerStyle = style]

SetFooter(ly, footer) == [ly EXCEPT !.footer = footer]

SetFooterStyle(ly, style) == [ly EXCEPT !.footerStyle = style]

SetHeaderHeight(ly, height) == [ly EXCEPT !.headerHeight = height]

SetFooterHeight(ly, height) == [ly EXCEPT !.footerHeight = height]

\* SetContent keeping the content of an unsized layout in pendingContent only
SetContent_PendingOnly(ly, content) ==
    IF ly.viewport.Width = 0
    THEN [ly EXCEPT !.pendingContent = content]
    ELSE applyAlignment([ly EXCEPT !.viewportContent = content])

SetContent(ly, content) ==
    LET l1 == [ly EXCEPT !.viewportContent = content]
    IN  IF l1.viewport.Width = 0
        THEN [l1 EXCEPT !.pendingContent = content]
        ELSE applyAlignment(l1)

\* SetVerticalAlignment giving an unsized viewport the default width
SetVerticalAlignment_Sizing(ly, alignment) ==
    LET l1 == [ly EXCEPT !.verticalAlign = alignment]
    IN  IF l1.viewport.Width > 0
        THEN applyAlignment(l1)
        ELSE [l1 EXCEPT !.viewport.Width = DefaultStyleWidth]

SetVerticalAlignment(ly, alignment) ==
    LET l1 == [ly EXCEPT !.verticalAlign = alignment]
    IN  IF l1.viewportContent # <<>> /\ l1.viewport.Width > 0
        THEN applyAlignment(l1)
        ELSE l1

\* the resize handler leaving pendingContent set after it has applied it
UpdateWindowSize_KeepPending(ly, w, h) ==
    LET l1 == [ly EXCEPT !.windowWidth = w,
                         !.windowHeight = h,
                         !.headerStyle.width = w,
                         !.footerStyle.width = w]
        viewportHeight == l1.windowHeight - l1.headerHeight - l1.footerHeight
    IN  IF l1.viewport.Width = 0
        THEN LET l2 == [l1 EXCEPT !.viewport =
                            viewport_New(l1.windowWidth, viewportHeight)]
             IN  IF l2.pendingContent # <<>>
                 THEN applyAlignment(
                        [l2 EXCEPT !.viewportContent = l2.pendingContent])
                 ELSE l2
        ELSE applyAlignment([l1 EXCEPT !.viewport.Width = l1.windowWidth,
                                       !.viewport.Height = viewportHeight])

\* Update(tea.WindowSizeMsg{Width: w, Height: h})
UpdateWindowSize(ly, w, h) ==
    LET l1 == [ly EXCEPT !.windowWidth = w,
                         !.windowHeight = h,
                         !.headerStyle.width = w,
                         !.footerStyle.width = w]
        viewportHeight == l1.windowHeight - l1.headerHeight - l1.footerHeight
    IN  IF l1.viewport.Width = 0
        THEN LET l2 == [l1 EXCEPT !.viewport =
                            viewport_New(l1.windowWidth, viewportHeight)]
             IN  IF l2.pendingContent # <<>>
                 THEN applyAlignment(
                        [l2 EXCEPT !.viewportContent = l2.pendingContent,
                                   !.pendingContent = <<>>])
                 ELSE l2
        ELSE applyAlignment([l1 EXCEPT !.viewport.Width = l1.windowWidth,
                                       !.viewport.Height = viewportHeight])

QuitKeys == {"ctrl+c", "q"}

\* Update(tea.KeyMsg): the Layout after the call
UpdateKey(ly, key) ==
    IF key \in QuitKeys THEN ly
    ELSE [ly EXCEPT !.viewport = viewport_Update(@, key)]

\* Update(tea.KeyMsg) quitting on "ctrl+c" alone
UpdateKeyCmd_CtrlCOnly(key) == IF key = "ctrl+c" THEN "Quit" ELSE "nil"

\* Update(tea.KeyMsg): the command returned
UpdateKeyCmd(key) == IF key \in QuitKeys THEN "Quit" ELSE "nil"

Placeholder == "Initializing..."

\* lipgloss Style.Render: the text in a block of the style's width
Render(style, text) == [text |-> text, width |-> style.width]

\* View taking the viewport's width, not the window's height, as the sentinel
View_ByViewportWidth(ly) ==
    IF ly.viewport.Width = 0
    THEN [kind |-> "placeholder", text |-> Placeholder]
    ELSE [kind   |-> "composed",
          header |-> Render(ly.headerStyle, ly.header),
          body   |-> viewport_View(ly.viewport),
          footer |-> Render(ly.footerStyle, ly.footer)]

\* View(): the string returned
View(ly) ==
    IF ly.windowHeight = 0
    THEN [kind |-> "placeholder", text |-> Placeholder]
    ELSE [kind   |-> "composed",
          header |-> Render(ly.headerStyle, ly.header),
          body   |-> viewport_View(ly.viewport),
          footer |-> Render(ly.footerStyle, ly.footer)]

\* View stretching the two styles to the window before it renders
ViewEffect_Restyle(ly) ==
    [ly EXCEPT !.headerStyle.width = ly.windowWidth,
               !.footerStyle.width = ly.windowWidth]

\* View(): the Layout after the call
ViewEffect(ly) == ly

SetViewportYPosition(ly, y) == [ly EXCEPT !.viewport.YPosition = y]

GetViewportYPosition(ly) == ly.viewport.YPosition

GetViewportHeight(ly) == ly.viewport.Height

GetViewportWidth(ly) == ly.viewport.Width

\* LineDown adding to the offset itself, without the viewport's clamping
LineDown_Unclamped(ly) == [ly EXCEPT !.viewport.YOffset = @ + 1]

LineDown(ly) == [ly EXCEPT !.viewport = viewport_LineDown(@, 1)]

LineUp(ly) == [ly EXCEPT !.viewport = viewport_LineUp(@, 1)]

\* HalfPageDown rounding the half page up
HalfPageDown_RoundUp(ly) ==
    LET halfPageHeight == Quot(ly.viewport.Height + 1, 2)
    IN  [ly EXCEPT !.viewport = viewport_LineDown(@, halfPageHeight)]

HalfPageDown(ly) ==
    LET halfPageHeight == Quot(ly.viewport.Height, 2)
    IN  [ly EXCEPT !.viewport = viewport_LineDown(@, halfPageHeight)]

HalfPageUp(ly) ==
    LET halfPageHeight == Quot(ly.viewport.Height, 2)
    IN  [ly EXCEPT !.viewport = viewport_LineUp(@, halfPageHeight)]

\* PageDown keeping one line of the previous page in view
PageDown_KeepLine(ly) ==
    [ly EXCEPT !.viewport = viewport_LineDown(@, ly.viewport.Height - 1)]

PageDown(ly) ==
    [ly EXCEPT !.viewport = viewport_LineDown(@, ly.viewport.Height)]

PageUp(ly) ==
    [ly EXCEPT !.viewport = viewport_LineUp(@, ly.viewport.Height)]

\* ScrollToTop building a fresh viewport of the same size
ScrollToTop_Rebuild(ly) ==
    [ly EXCEPT !.viewport = viewport_New(@.Width, @.Height)]

ScrollToTop(ly) == [ly EXCEPT !.viewport = GotoTop(@)]

ScrollToBottom(ly) == [ly EXCEPT !.viewport = GotoBottom(@)]

----------------------------------------------------------------------------
(* The state machine: the host calls one operation at a time               *)

Keys == QuitKeys \cup {"f", "b", "d", "u", "j", "k", "x"}

Init ==
    /\ l = New
    /\ resized = FALSE

CallSetHeaderHeight ==
    /\ \E height \in 1..MaxHeaderH : l' = SetHeaderHeight(l, height)
    /\ UNCHANGED resized

CallSetFooterHeight ==
    /\ \E height \in 1..MaxFooterH : l' = SetFooterHeight(l, height)
    /\ UNCHANGED resized

CallSetContent ==
    /\ \E content \in Strings : l' = SetContent(l, content)
    /\ UNCHANGED resized

CallSetVerticalAlignment ==
    /\ \E alignment \in VerticalAlignment :
          l' = SetVerticalAlignment(l, alignment)
    /\ UNCHANGED resized

CallUpdateWindowSize ==
    /\ \E w \in 0..MaxWinW, h \in 0..MaxWinH : l' = UpdateWindowSize(l, w, h)
    /\ resized' = TRUE

CallUpdateKey ==
    /\ \E key \in Keys : l' = UpdateKey(l, key)
    /\ UNCHANGED resized

CallSetViewportYPosition ==
    /\ \E y \in 0..MaxYPos : l' = SetViewportYPosition(l, y)
    /\ UNCHANGED resized

CallLineDown == l' = LineDown(l) /\ UNCHANGED resized

CallLineUp == l' = LineUp(l) /\ UNCHANGED resized

CallHalfPageDown == l' = HalfPageDown(l) /\ UNCHANGED resized

CallHalfPageUp == l' = HalfPageUp(l) /\ UNCHANGED resized

CallPageDown == l' = PageDown(l) /\ UNCHANGED resized

CallPageUp == l' = PageUp(l) /\ UNCHANGED resized

CallScrollToTop == l' = ScrollToTop(l) /\ UNCHANGED resized

CallScrollToBottom == l' = ScrollToBottom(l) /\ UNCHANGED resized

Next ==
    \/ CallSetHeaderHeight
    \/ CallSetFooterHeight
    \/ CallSetContent
    \/ CallSetVerticalAlignment
    \/ CallUpdateWindowSize
    \/ CallUpdateKey
    \/ CallSetViewportYPosition
    \/ CallLineDown
    \/ CallLineUp
    \/ CallHalfPageDown
    \/ CallHalfPageUp
    \/ CallPageDown
    \/ CallPageUp
    \/ CallScrollToTop
    \/ CallScrollToBottom

Spec == Init /\ [][Next]_vars

----------------------------------------------------------------------------
(* The same machine with the header, footer and style setters and View;    *)
(* the setters touch fields that only View reads, so the content strings   *)
(* are kept short here                                                     *)

Headers == {"Title"}

Footers == {"Help"}

\* the styles a host passes in: lipgloss.NewStyle().Width(100)
Styles == {[width |-> DefaultStyleWidth]}

RenderStrings == UNION {StringsOfLen(n) : n \in 0..MaxRenderLen}

CallSetHeader ==
    /\ \E header \in Headers : l' = SetHeader(l, header)
    /\ UNCHANGED resized

CallSetHeaderStyle ==
    /\ \E style \in Styles : l' = SetHeaderStyle(l, style)
    /\ UNCHANGED resized

CallSetFooter ==
    /\ \E footer \in Footers : l' = SetFooter(l, footer)
    /\ UNCHANGED resized

CallSetFooterStyle ==
    /\ \E style \in Styles : l' = SetFooterStyle(l, style)
    /\ UNCHANGED resized

CallSetRenderContent ==
    /\ \E content \in RenderStrings : l' = SetContent(l, content)
    /\ UNCHANGED resized

CallView == l' = ViewEffect(l) /\ UNCHANGED resized

NextRender ==
    \/ CallSetHeader
    \/ CallSetHeaderStyle
    \/ CallSetHeaderHeight
    \/ CallSetFooter
    \/ CallSetFooterStyle
    \/ CallSetFooterHeight
    \/ CallSetRenderContent
    \/ CallSetVerticalAlignment
    \/ CallUpdateWindowSize
    \/ CallUpdateKey
    \/ CallView
    \/ CallSetViewportYPosition
    \/ CallLineDown
    \/ CallLineUp
    \/ CallHalfPageDown
    \/ CallHalfPageUp
    \/ CallPageDown
    \/ CallPageUp
    \/ CallScrollToTop
    \/ CallScrollToBottom

SpecRender == Init /\ [][NextRender]_vars

TypeOK ==
    /\ l.viewportContent \in Strings
    /\ l.pendingContent \in Strings
    /\ l.verticalAlign \in VerticalAlignment
    /\ l.viewport.YOffset >= 0
    /\ resized \in BOOLEAN

----------------------------------------------------------------------------
(* Vocabulary of the claims                                                *)

\* the content string a viewport holds (none set yet: the empty string)
Content(m) == Join(m.lines)

Sized == l.viewport.Width > 0

lineCount(c) == Count(c) + 1

\* the alignment function of the specification, section 4.2
Align(c, mode, h) ==
    IF lineCount(c) >= h THEN c
    ELSE CASE mode = AlignTop    -> c
           [] mode = AlignCenter -> Newlines((h - lineCount(c)) \div 2) \o c
           [] mode = AlignBottom -> Newlines(h - lineCount(c)) \o c

----------------------------------------------------------------------------
(* C1: SetContent(C) before any resize event leaves the viewport alone,    *)
(* and the first resize event, whatever width and height it carries,       *)
(* leaves the viewport holding C aligned per the current mode for the new  *)
(* viewport height.  Stated for non-empty C and a window high enough for   *)
(* the header and the footer.                                              *)

C1_FirstResizeAppliesContent ==
    [][/\ \A c \in Strings :
             (~resized /\ l' = SetContent(l, c)) => l'.viewport = l.viewport
       /\ (/\ ~resized /\ resized'
           /\ l.pendingContent # <<>>
           /\ l'.viewport.Height >= 0) =>
             Content(l'.viewport) =
                Align(l.pendingContent, l.verticalAlign, l'.viewport.Height)
      ]_vars

----------------------------------------------------------------------------
(* C2: after the first resize event the viewport content equals            *)
(* Align(rawContent, verticalAlign, viewport.Height).  Stated for a        *)
(* viewport of positive width and height and a non-empty rawContent.       *)

C2_ContentIsAlignedRaw ==
    (resized /\ Sized /\ l.viewport.Height > 0 /\ l.viewportContent # <<>>) =>
        Content(l.viewport) =
            Align(l.viewportContent, l.verticalAlign, l.viewport.Height)

----------------------------------------------------------------------------
(* C3: when the content has fewer lines than the viewport is high,         *)
(* applyAlignment (past its width guard) sets the viewport content to the  *)
(* raw content in Top mode, to H - lineCount line breaks followed by the   *)
(* raw content in Bottom mode, and to floor((H - lineCount) / 2) line      *)
(* breaks followed by the raw content in Center mode.                      *)

C3_PaddingWhenShort ==
    LET c == l.viewportContent
        h == l.viewport.Height
        after == Content(applyAlignment(l).viewport)
    IN  (l.viewport.Width # 0 /\ lineCount(c) < h) =>
          /\ l.verticalAlign = AlignTop => after = c
          /\ l.verticalAlign = AlignBottom =>
                after = Newlines(h - lineCount(c)) \o c
          /\ l.verticalAlign = AlignCenter =>
                after = Newlines((h - lineCount(c)) \div 2) \o c

\* a centred two-line gap: one blank line was put before a non-empty content
C3_Witness ==
    /\ Sized
    /\ l.verticalAlign = AlignCenter
    /\ l.viewportContent # <<>>
    /\ l.viewport.Height - lineCount(l.viewportContent) = 2
    /\ Content(l.viewport) = <<NL>> \o l.viewportContent

----------------------------------------------------------------------------
(* C4: when the content has at least as many lines as the viewport is      *)
(* high, alignment leaves the content as it is in every mode; after a      *)
(* resize event that shrinks the viewport height from above the line       *)
(* count to at most the line count, the viewport content equals            *)
(* rawContent.  Stated for the resize events of a Sized layout that leave  *)
(* a viewport height >= 0.                                                 *)

C4_NoPaddingWhenTall ==
    [][\A w \in 0..MaxWinW, h \in 0..MaxWinH :
          (/\ Sized
           /\ l' = UpdateWindowSize(l, w, h)
           /\ lineCount(l.viewportContent) < l.viewport.Height
           /\ lineCount(l'.viewportContent) >= l'.viewport.Height
           /\ l'.viewport.Height >= 0)
          => Content(l'.viewport) = l'.viewportContent
      ]_vars
----------------------------------------------------------------------------
(* C5: in a Sized layout, repeating a re-alignment trigger with unchanged  *)
(* inputs (a resize event with the same width and height,                  *)
(* SetVerticalAlignment with the current mode, SetContent with the         *)
(* current raw content) leaves the viewport content as it was after the    *)
(* first application, and what a resize event or SetContent leaves is      *)
(* computed from rawContent, not from the padded buffer.                   *)

SameResize(ly) == UpdateWindowSize(ly, ly.windowWidth, ly.windowHeight)

SameAlignment(ly) == SetVerticalAlignment(ly, ly.verticalAlign)

SameContent(ly) == SetContent(ly, ly.viewportContent)

FromRaw(ly) ==
    Content(ly.viewport) =
        Align(ly.viewportContent, ly.verticalAlign, ly.viewport.Height)

C5_RealignIdempotent ==
    Sized =>
      /\ SameResize(SameResize(l)).viewport.lines = SameResize(l).viewport.lines
      /\ SameAlignment(SameAlignment(l)).viewport.lines =
            SameAlignment(l).viewport.lines
      /\ SameContent(SameContent(l)).viewport.lines =
            SameContent(l).viewport.lines
      /\ FromRaw(SameResize(l))
      /\ FromRaw(SameContent(l))

\* a bottom-aligned, padded content that a repeated resize leaves as it is
C5_Witness ==
    /\ Sized
    /\ l.verticalAlign = AlignBottom
    /\ l.viewportContent # <<>>
    /\ l.viewport.Height > lineCount(l.viewportContent)
    /\ Len(l.viewport.lines) = l.viewport.Height
    /\ SameResize(l).viewport.lines = l.viewport.lines

----------------------------------------------------------------------------
(* C6: in every state after a resize event the viewport height equals      *)
(* windowHeight - headerHeight - footerHeight, also after SetHeaderHeight  *)
(* or SetFooterHeight.  Stated for a Sized layout whose window is high     *)
(* enough for the header and the footer.                                   *)

C6_ViewportHeightFormula ==
    (/\ resized
     /\ Sized
     /\ GetViewportHeight(l) > 0
     /\ l.windowHeight >= l.headerHeight + l.footerHeight) =>
        GetViewportHeight(l) =
            l.windowHeight - l.headerHeight - l.footerHeight

----------------------------------------------------------------------------
(* C7: in a Sized layout, ScrollToBottom followed by LineDown leaves the   *)
(* offset where ScrollToBottom put it, ScrollToTop followed by LineUp      *)
(* leaves it at 0, and no navigation operation takes the offset below 0    *)
(* or beyond the larger of the old offset and the maximum offset (no       *)
(* wrap-around); LineDown never decreases and LineUp never increases it.   *)

NavOps(ly) ==
    {LineDown(ly), LineUp(ly), HalfPageDown(ly), HalfPageUp(ly),
     PageDown(ly), PageUp(ly), ScrollToTop(ly), ScrollToBottom(ly)}

C7_ScrollClamps ==
    Sized =>
      /\ LineDown(ScrollToBottom(l)).viewport.YOffset =
            ScrollToBottom(l).viewport.YOffset
      /\ ScrollToBottom(l).viewport.YOffset = maxYOffset(l.viewport)
      /\ LineUp(ScrollToTop(l)).viewport.YOffset = 0
      /\ \A r \in NavOps(l) :
            /\ r.viewport.YOffset >= 0
            /\ r.viewport.YOffset <=
                  Max(l.viewport.YOffset, maxYOffset(l.viewport))
      /\ LineDown(l).viewport.YOffset >= l.viewport.YOffset
      /\ LineUp(l).viewport.YOffset <= l.viewport.YOffset

\* scrolled to the bottom of a content longer than the viewport
C7_Witness ==
    /\ Sized
    /\ l.viewport.Height > 0
    /\ maxYOffset(l.viewport) > 0
    /\ l.viewport.YOffset = maxYOffset(l.viewport)
    /\ LineDown(l) = l

----------------------------------------------------------------------------
(* C8: GetViewportYPosition returns the scroll offset: in a Sized layout   *)
(* of positive height it equals the offset a LineDown call has just        *)
(* produced.                                                               *)

C8_YPositionIsOffset ==
    [][(Sized /\ l.viewport.Height > 0
              /\ l' = LineDown(l)
              /\ l'.viewport.YOffset # l.viewport.YOffset)
         => GetViewportYPosition(l') = l'.viewport.YOffset
      ]_vars

----------------------------------------------------------------------------
(* C9: HalfPageDown and HalfPageUp move the offset by viewport.Height / 2  *)
(* lines, clamped at the boundary.                                         *)

\* the offset after scrolling down by n: nothing at or past the bottom
ScrolledDown(m, n) ==
    IF m.YOffset >= Max(0, Len(m.lines) - m.Height) THEN m.YOffset
    ELSE Min(Max(0, Len(m.lines) - m.Height), Max(0, m.YOffset + n))

\* the offset after scrolling up by n: nothing at the top
ScrolledUp(m, n) ==
    IF m.YOffset <= 0 THEN m.YOffset
    ELSE Min(Max(0, Len(m.lines) - m.Height), Max(0, m.YOffset - n))

HasContent == Sized /\ Len(l.viewport.lines) > 0

\* the claim as made: the step is floor(Height / 2)
C9_HalfPageFloor ==
    HasContent =>
      /\ HalfPageDown(l).viewport.YOffset =
            ScrolledDown(l.viewport, l.viewport.Height \div 2)
      /\ HalfPageUp(l).viewport.YOffset =
            ScrolledUp(l.viewport, l.viewport.Height \div 2)

\* the claim as amended: the step is Height / 2 truncated toward zero, which
\* is floor(Height / 2) for every Height >= 0; Height 1 moves nothing; the
\* calls change nothing but the offset
C9_HalfPageTruncated ==
    HasContent =>
      LET h == l.viewport.Height
          step == IF h >= 0 THEN h \div 2 ELSE -((-h) \div 2)
      IN  /\ HalfPageDown(l).viewport.YOffset = ScrolledDown(l.viewport, step)
          /\ HalfPageUp(l).viewport.YOffset = ScrolledUp(l.viewport, step)
          /\ h = 1 => /\ HalfPageDown(l) = l
                      /\ HalfPageUp(l) = l
          /\ HalfPageDown(l) =
                [l EXCEPT !.viewport.YOffset = HalfPageDown(l).viewport.YOffset]

\* half a page down, unclamped, in a viewport of height 2 or 3
C9_Witness ==
    /\ HasContent
    /\ l.viewport.Height \in {2, 3}
    /\ l.viewport.YOffset = 1
    /\ maxYOffset(l.viewport) >= 2
    /\ HalfPageDown(l).viewport.YOffset = 2
    /\ HalfPageUp(l).viewport.YOffset = 0

----------------------------------------------------------------------------
(* C10: for every content and every even viewport height, from offset 0    *)
(* two HalfPageDown calls end at the offset of one PageDown call, clamped  *)
(* or not.                                                                 *)

C10_TwoHalvesOnePage ==
    (l.viewport.YOffset = 0 /\ l.viewport.Height % 2 = 0) =>
        HalfPageDown(HalfPageDown(l)).viewport.YOffset =
            PageDown(l).viewport.YOffset

\* height 2 over four lines: the page and the two halves reach 2, unclamped
C10_Witness ==
    /\ Sized
    /\ l.viewport.YOffset = 0
    /\ l.viewport.Height = 2
    /\ Len(l.viewport.lines) = 4
    /\ HalfPageDown(l).viewport.YOffset = 1
    /\ PageDown(l).viewport.YOffset = 2

----------------------------------------------------------------------------
(* C11: View returns the placeholder in every state before the first       *)
(* resize event and the composed block in every state after one; the       *)
(* placeholder is returned exactly when windowHeight is 0.                 *)

C11_ViewByResize ==
    /\ ~resized => View(l).kind = "placeholder"
    /\ resized => View(l).kind = "composed"
    /\ View(l).kind = "placeholder" <=> l.windowHeight = 0

\* C11, as the code has it: the placeholder is returned exactly when
\* windowHeight is 0, which is so before the first resize event and after a
\* resize event of height 0; when the last resize event had a positive height
\* View returns the header, the viewport's body and the footer.
C11_PlaceholderIffNoHeight ==
    /\ ~resized => View(l).kind = "placeholder"
    /\ View(l).kind = "placeholder" <=> l.windowHeight = 0
    /\ l.windowHeight # 0 =>
          /\ resized
          /\ View(l).kind = "composed"
          /\ View(l).header.text = l.header
          /\ View(l).body.lines = visibleLines(l.viewport)
          /\ View(l).footer.text = l.footer

\* a resize event of height 0 has built the viewport; View still says
\* "Initializing..."
C11_Witness ==
    /\ resized
    /\ Sized
    /\ l.windowHeight = 0
    /\ View(l).kind = "placeholder"

----------------------------------------------------------------------------
(* C12: in every state after a resize event the width of headerStyle and   *)
(* of footerStyle equals windowWidth, also after SetHeaderStyle or         *)
(* SetFooterStyle was called after the resize.                             *)

C12_StylesFillWindow ==
    resized =>
        /\ l.headerStyle.width = l.windowWidth
        /\ l.footerStyle.width = l.windowWidth

----------------------------------------------------------------------------
(* C13: View leaves every field of the Layout as it was, in every          *)
(* reachable state and however often it is called, and a second call       *)
(* returns what the first returned.                                        *)

C13_ViewIsPureRead ==
    /\ ViewEffect(l) = l
    /\ ViewEffect(ViewEffect(l)) = l
    /\ View(ViewEffect(l)) = View(l)

\* a composed block whose header style is not the window's width, over a
\* scrolled viewport
C13_Witness ==
    /\ resized
    /\ View(l).kind = "composed"
    /\ l.headerStyle.width # l.windowWidth
    /\ l.viewport.YOffset > 0
    /\ View(ViewEffect(l)).body.lines = visibleLines(l.viewport)

----------------------------------------------------------------------------
(* C14: after a resize event whose window height is below headerHeight +   *)
(* footerHeight (the viewport's height is negative) the viewport content   *)
(* equals rawContent, no padding added, and the scroll offset is not       *)
(* negative, whatever is called afterwards.                                *)

C14_NegativeHeightHarmless ==
    (resized /\ l.viewport.Height < 0) =>
        /\ Content(l.viewport) = l.viewportContent
        /\ l.viewport.YOffset >= 0
        /\ \A ly \in NavOps(l) : ly.viewport.YOffset >= 0

----------------------------------------------------------------------------
(* C15: in every Sized state pendingContent is empty, and SetContent on a  *)
(* Sized layout leaves it empty.                                           *)

C15_SizedHasNoPending ==
    Sized =>
        /\ l.pendingContent = <<>>
        /\ \A content \in Strings :
              SetContent(l, content).pendingContent = <<>>

\* content set before the first resize is on display and no longer pending
C15_Witness ==
    /\ Sized
    /\ l.viewportContent # <<>>
    /\ Content(l.viewport) = l.viewportContent
    /\ l.pendingContent = <<>>

----------------------------------------------------------------------------
(* C16: only a window-resize event changes the viewport's width; no        *)
(* setter, key event or navigation call does, so none of them moves the    *)
(* layout between Unsized and Sized.                                       *)

C16_OnlyResizeChangesWidth ==
    [][l'.viewport.Width # l.viewport.Width =>
          /\ resized'
          /\ \E w \in 0..MaxWinW, h \in 0..MaxWinH :
                l' = UpdateWindowSize(l, w, h)]_vars

\* an unsized layout on which setters have acted, resize events included
C16_Witness ==
    /\ ~Sized
    /\ resized
    /\ l.header = "Title"
    /\ l.verticalAlign = AlignBottom
    /\ l.viewportContent # <<>>

----------------------------------------------------------------------------
(* C17: once the layout is Sized no operation, further resize events       *)
(* included, brings it back to Unsized.                                    *)

C17_SizedForever == [][l.viewport.Width > 0 => l'.viewport.Width > 0]_vars

----------------------------------------------------------------------------
(* C18: in every Sized state the scroll offset lies in [0, maxOffset],     *)
(* maxOffset = max(0, lines of the viewport content - viewport.Height).    *)

C18_OffsetInRange ==
    (Sized /\ l.viewport.Height > 0) =>
        /\ 0 <= l.viewport.YOffset
        /\ l.viewport.YOffset <=
              Max(0, Len(l.viewport.lines) - l.viewport.Height)

----------------------------------------------------------------------------
(* C19: whenever pendingContent is non-empty it equals rawContent, and     *)
(* SetContent on an Unsized layout stores its string in both fields and    *)
(* leaves the viewport as it was.                                          *)

C19_PendingIsRaw ==
    /\ l.pendingContent # <<>> => l.pendingContent = l.viewportContent
    /\ ~Sized =>
          \A content \in Strings :
              /\ SetContent(l, content).pendingContent = content
              /\ SetContent(l, content).viewportContent = content
              /\ SetContent(l, content).viewport = l.viewport

\* content set after a resize event of width 0 waits in both fields
C19_Witness ==
    /\ resized
    /\ ~Sized
    /\ l.pendingContent # <<>>
    /\ l.pendingContent = l.viewportContent
    /\ l.viewport.lines = <<>>

----------------------------------------------------------------------------
(* C20: Update with "q" or "ctrl+c" returns the quit command and the       *)
(* Layout as it was; Update with any other key returns no quit command     *)
(* and changes at most the viewport's scroll offset.                       *)

C20_KeyFrame ==
    \A key \in Keys :
        IF key \in {"q", "ctrl+c"}
        THEN /\ UpdateKeyCmd(key) = "Quit"
             /\ UpdateKey(l, key) = l
        ELSE /\ UpdateKeyCmd(key) # "Quit"
             /\ UpdateKey(l, key) =
                   [l EXCEPT !.viewport.YOffset =
                                 UpdateKey(l, key).viewport.YOffset]

\* a scrolled viewport: "k" moves it, "q" does not
C20_Witness ==
    /\ Sized
    /\ l.viewport.YOffset > 0
    /\ UpdateKey(l, "k").viewport.YOffset < l.viewport.YOffset
    /\ UpdateKey(l, "q") = l

----------------------------------------------------------------------------
(* C21: LineUp, LineDown, HalfPageUp, HalfPageDown, PageUp, PageDown,      *)
(* ScrollToTop and ScrollToBottom change only the viewport's scroll        *)
(* offset: rawContent, pendingContent, the alignment mode, the viewport    *)
(* content, width and height, the window dimensions and the header and     *)
(* footer settings are after the call what they were before it.            *)

C21_NavFrame ==
    \A ly \in NavOps(l) :
        /\ ly.viewportContent = l.viewportContent
        /\ ly.pendingContent = l.pendingContent
        /\ ly.verticalAlign = l.verticalAlign
        /\ ly.viewport.lines = l.viewport.lines
        /\ ly.viewport.Width = l.viewport.Width
        /\ ly.viewport.Height = l.viewport.Height
        /\ ly.windowWidth = l.windowWidth
        /\ ly.windowHeight = l.windowHeight
        /\ ly.header = l.header
        /\ ly.headerHeight = l.headerHeight
        /\ ly.headerStyle = l.headerStyle
        /\ ly.footer = l.footer
        /\ ly.footerHeight = l.footerHeight
        /\ ly.footerStyle = l.footerStyle
        /\ ly = [l EXCEPT !.viewport.YOffset = ly.viewport.YOffset]

\* a scrolled viewport under a header set by the host: ScrollToTop moves the
\* offset and LineUp does too
C21_Witness ==
    /\ Sized
    /\ l.header = "Title"
    /\ l.viewportContent # <<>>
    /\ l.viewport.YOffset > 0
    /\ ScrollToTop(l).viewport.YOffset = 0
    /\ LineUp(l) # l

====
